---- MODULE Spec2Model ----
(***************************************************************************)
(* Model of daemon/device-plugin/deviceplugin.go: the nfResources device   *)
(* plugin (registry of devices, ListAndWatch streams, Allocate, GetDevices *)
(* and the Start sequence).                                                *)
(***************************************************************************)
EXTENDS Integers, Sequences, FiniteSets, TLC

(* ---------------------------- bounds ----------------------------------- *)
\* number of container requests (groups) in one AllocateRequest
MaxGroups == 2
\* number of device identities named by one AllocateRequest, over its groups
MaxIds == 3
\* number of ListAndWatch streams the kubelet side may open
NumStreams == 2
\* number of polling intervals counted per stream
MaxPolls == 2

(* ---------------------------- constants -------------------------------- *)
\* pluginapi.Healthy / pluginapi.Unhealthy
Healthy == "Healthy"
Unhealthy == "Unhealthy"
HealthValues == {Healthy, Unhealthy}

\* identities the vendor service may enumerate
VendorIDs == {"A", "B"}
\* identities a request may name: the vendor's and one nobody knows
RequestIDs == VendorIDs \cup {"X"}

\* key of the environment mapping: envmap["NF-DEV"]
EnvKey == "NF-DEV"

Streams == 1..NumStreams

VARIABLES
    devices,     \* nf.devices: map[string]pluginapi.Device
    client,      \* nf.client != nil
    dials,       \* successful dials of the vendor service made by ensureConnected
    socket,      \* the socket file exists under the plugin directory
    server,      \* nf.grpcServer and its background Serve goroutine
    startPc,     \* the step Start is about to execute, or done / failed
    startErr,    \* the step whose error Start returned, "nil" if none
    tried,       \* the startup steps executed so far, in order
    registered,  \* the Register RPC was accepted by the kubelet
    lwPc,        \* per stream: position of its ListAndWatch loop
    pushes,      \* per stream: responses sent successfully
    polls,       \* per stream: polling intervals elapsed (counted to MaxPolls)
    sent,        \* per stream: resp.Devices of the last response the kubelet
                 \* received on it (kept only where the receiver is observed)
    lwErr,       \* per stream: the error its ListAndWatch returned, "nil" if none
    healthChanged, \* some record's stored health was changed by a write
    allocOut,    \* the Allocate call completed by the last step, if any
    getOut,      \* the GetDevices call completed by the last step, if any
    cleanOut,    \* what os.Remove returned to the cleanup run by the last step
    pushOut      \* the response stream.Send delivered in the last step, if any

vars == <<devices, client, dials, socket, server, startPc, startErr, tried,
          registered, lwPc, pushes, polls, sent, lwErr, healthChanged,
          allocOut, getOut, cleanOut, pushOut>>

startVars == <<startPc, startErr, tried, registered>>
lwVars == <<lwPc, pushes, polls, sent, lwErr>>

(* ------------------------- registry values ----------------------------- *)
\* pluginapi.Device{ID: id, Health: h}
Device(id, h) == [ID |-> id, Health |-> h]

RegistryOf(hs) == [id \in DOMAIN hs |-> Device(id, hs[id])]

\* every value of the map whose keys equal the records' IDs
AllRegistries ==
    {RegistryOf(hs) : hs \in UNION {[ids -> HealthValues] : ids \in SUBSET VendorIDs}}

\* make(map[string]pluginapi.Device)
EmptyRegistry == RegistryOf(<<>>)

(* ------------------------------ Allocate -------------------------------- *)
\* error values: nil, or fmt.Errorf("... non-existing device: %s", id),
\* or fmt.Errorf("... unhealthy device: %s", id)
NoErr == [kind |-> "nil", id |-> ""]
UnknownErr(id) == [kind |-> "non-existing device", id |-> id]
UnhealthyErr(id) == [kind |-> "unhealthy device", id |-> id]

\* a *pluginapi.AllocateResponse: the nil pointer, or its ContainerResponses
NilResponse == [nil |-> TRUE, ContainerResponses |-> <<>>]
Response(crs) == [nil |-> FALSE, ContainerResponses |-> crs]

\* containerResp.Envs = envmap, with envmap["NF-DEV"] = devName
ContainerResponse(devName) == [Envs |-> [k \in {EnvKey} |-> devName]]

\* AllocateIDs without the check of dev.Health
RECURSIVE AllocateIDsNoHealthCheck(_, _, _, _)
AllocateIDsNoHealthCheck(devs, ids, i, devName) ==
    IF i > Len(ids) THEN [err |-> NoErr, devName |-> devName]
    ELSE LET id == ids[i] IN
         IF id \notin DOMAIN devs
         THEN [err |-> UnknownErr(id), devName |-> devName]
         ELSE AllocateIDsNoHealthCheck(devs, ids, i + 1, devName \o <<id, ",">>)

\* the inner loop over container.DevicesIDs, from the i-th identity on;
\* devName is a string, kept as the sequence of the pieces concatenated
RECURSIVE AllocateIDs(_, _, _, _)
AllocateIDs(devs, ids, i, devName) ==
    IF i > Len(ids) THEN [err |-> NoErr, devName |-> devName]
    ELSE LET id == ids[i] IN
         IF id \notin DOMAIN devs
         THEN [err |-> UnknownErr(id), devName |-> devName]
         ELSE IF devs[id].Health # Healthy
         THEN [err |-> UnhealthyErr(id), devName |-> devName]
         ELSE AllocateIDs(devs, ids, i + 1, devName \o <<id, ",">>)

\* AllocateContainers returning the responses built so far with the error
RECURSIVE AllocateContainersPartial(_, _, _, _, _)
AllocateContainersPartial(devs, reqs, c, devName, crs) ==
    IF c > Len(reqs) THEN [resp |-> Response(crs), err |-> NoErr]
    ELSE LET r == AllocateIDs(devs, reqs[c], 1, devName) IN
         IF r.err # NoErr
         THEN [resp |-> Response(crs), err |-> r.err]
         ELSE AllocateContainersPartial(devs, reqs, c + 1, r.devName,
                                        Append(crs, ContainerResponse(r.devName)))

\* the outer loop over rqt.ContainerRequests, from the c-th request on;
\* devName is declared before the loop and carried through it
RECURSIVE AllocateContainers(_, _, _, _, _)
AllocateContainers(devs, reqs, c, devName, crs) ==
    IF c > Len(reqs) THEN [resp |-> Response(crs), err |-> NoErr]
    ELSE LET r == AllocateIDs(devs, reqs[c], 1, devName) IN
         IF r.err # NoErr
         THEN [resp |-> NilResponse, err |-> r.err]
         ELSE AllocateContainers(devs, reqs, c + 1, r.devName,
                                 Append(crs, ContainerResponse(r.devName)))

\* what Allocate returns for request rqt against the map devs
AllocateResult(devs, rqt) == AllocateContainers(devs, rqt, 1, <<>>, <<>>)

\* the identities of a request, in the order the loops visit them
RECURSIVE Flatten(_)
Flatten(rqt) == IF rqt = <<>> THEN <<>> ELSE Head(rqt) \o Flatten(Tail(rqt))

\* the requests of the bounded model: k groups naming at most n identities
SeqsUpTo(S, n) == UNION {[1..k -> S] : k \in 0..n}

RECURSIVE RequestsOf(_, _)
RequestsOf(k, n) ==
    IF k = 0 THEN {<<>>}
    ELSE UNION {{<<g>> \o r : r \in RequestsOf(k - 1, n - Len(g))} :
                    g \in SeqsUpTo(RequestIDs, n)}

Requests == UNION {RequestsOf(k, MaxIds) : k \in 0..MaxGroups}

\* the requests the kubelet's device manager sends: one container request
\* per call, naming no device twice
KubeletRequests ==
    {<<g>> : g \in {h \in SeqsUpTo(RequestIDs, MaxIds) :
                        \A i, j \in 1..Len(h) : h[i] = h[j] => i = j}}

NoAlloc == [called |-> FALSE, devs |-> EmptyRegistry, rqt |-> <<>>,
            resp |-> NilResponse, err |-> NoErr]

(* --------------------------- health check ------------------------------ *)
\* getDeviceState probing a device and finding it not Healthy
getDeviceStateProbe(DeviceName) == Unhealthy

\* getDeviceState: the recomputed health of a device
getDeviceState(DeviceName) == Healthy

\* changed() updating its copy of the record without storing it in the map
changedDevicesNoStore(devs) == devs

\* changed(): the map it leaves and the value it returns
changedDevices(devs) ==
    [id \in DOMAIN devs |->
        IF devs[id].Health # getDeviceState(id)
        THEN [devs[id] EXCEPT !.Health = getDeviceState(id)]
        ELSE devs[id]]

\* changed() reporting a change whatever it found
changedResultAlways(devs) == TRUE

changedResult(devs) ==
    \E id \in DOMAIN devs : devs[id].Health # getDeviceState(id)

(* ----------------------------- GetDevices ------------------------------ *)
\* ensureConnected dialing without looking at nf.client
ensureConnectedAlwaysDials(cl, dialOk) ==
    IF ~dialOk THEN [client |-> FALSE, dialed |-> TRUE, err |-> TRUE]
    ELSE [client |-> TRUE, dialed |-> TRUE, err |-> FALSE]

\* ensureConnected: the client after the call, whether grpc.DialContext was
\* called and whether the call failed
ensureConnected(cl, dialOk) ==
    IF cl THEN [client |-> TRUE, dialed |-> FALSE, err |-> FALSE]
    ELSE IF ~dialOk THEN [client |-> FALSE, dialed |-> TRUE, err |-> TRUE]
    ELSE [client |-> TRUE, dialed |-> TRUE, err |-> FALSE]

\* the loop over Devices.Devices writing into a map emptied first
UpsertIntoEmptied(devs, D) == [id \in D |-> Device(id, Healthy)]

\* the loop storing the records without a health the recomputation agrees with
UpsertNotHealthy(devs, D) ==
    [id \in (DOMAIN devs) \cup D |->
        IF id \in D THEN Device(id, Unhealthy) ELSE devs[id]]

\* the loop over Devices.Devices: nf.devices[device.ID] = Device{ID, Healthy}
Upsert(devs, D) ==
    [id \in (DOMAIN devs) \cup D |->
        IF id \in D THEN Device(id, Healthy) ELSE devs[id]]

\* GetDevices treating an empty enumeration as an error
GetDevicesResultNeedsDevices(devs, cl, dialOk, rpcOk, D) ==
    LET ec == ensureConnected(cl, dialOk) IN
    IF ec.err
    THEN [devices |-> devs, client |-> ec.client, dialed |-> ec.dialed,
          err |-> "connect"]
    ELSE IF ~rpcOk \/ D = {}
    THEN [devices |-> devs, client |-> ec.client, dialed |-> ec.dialed,
          err |-> "rpc"]
    ELSE [devices |-> Upsert(devs, D), client |-> ec.client,
          dialed |-> ec.dialed, err |-> "nil"]

\* GetDevices: the map and client it leaves and the error it returns
GetDevicesResult(devs, cl, dialOk, rpcOk, D) ==
    LET ec == ensureConnected(cl, dialOk) IN
    IF ec.err
    THEN [devices |-> devs, client |-> ec.client, dialed |-> ec.dialed,
          err |-> "connect"]
    ELSE IF ~rpcOk
    THEN [devices |-> devs, client |-> ec.client, dialed |-> ec.dialed,
          err |-> "rpc"]
    ELSE [devices |-> Upsert(devs, D), client |-> ec.client,
          dialed |-> ec.dialed, err |-> "nil"]

NoGet == [called |-> FALSE, R |-> EmptyRegistry, cl |-> FALSE, dialed |-> FALSE,
          D |-> {}, err |-> "nil"]

\* the GetDevices call a step completes: the map and client it found, whether
\* it dialed, the identities the vendor returned and the error it returns
GetCall(devs, cl, D, r) ==
    [called |-> TRUE, R |-> devs, cl |-> cl, dialed |-> r.dialed, D |-> D,
     err |-> r.err]

\* nf.conn is assigned once more for every dial that succeeded
DialsAfter(n, r) == IF r.dialed /\ r.client THEN n + 1 ELSE n

(* ----------------------------- sendDevices ----------------------------- *)
\* the entries the loop over the map appends, as a set
Snapshot(devs) == {Device(devs[id].ID, devs[id].Health) : id \in DOMAIN devs}

\* the orders in which a range loop may visit the keys of the map
KeyOrders(devs) ==
    {o \in [1..Cardinality(DOMAIN devs) -> DOMAIN devs] :
        \A i, j \in DOMAIN o : o[i] = o[j] => i = j}

\* sendDevices appending the address of the loop variable: every entry ends
\* up as the record visited last
sendDevicesLoopPointer(devs) ==
    {[i \in DOMAIN o |-> Device(devs[o[Len(o)]].ID, devs[o[Len(o)]].Health)] :
        o \in KeyOrders(devs)}

\* resp.Devices as sendDevices may build it: one appended entry per key
\* visited, copying the record's ID and Health
sendDevicesResponses(devs) ==
    {[i \in DOMAIN o |-> Device(devs[o[i]].ID, devs[o[i]].Health)] :
        o \in KeyOrders(devs)}

(* ------------------------------- Init ---------------------------------- *)
\* the order in which Start and RegisterDevicePlugin execute their steps
StartOrder ==
    <<"cleanup", "discovery", "listen", "dialKubelet", "serve", "selftest",
      "register">>

NoStreams ==
    /\ lwPc = [s \in Streams |-> "none"]
    /\ pushes = [s \in Streams |-> 0]
    /\ polls = [s \in Streams |-> 0]
    /\ sent = [s \in Streams |-> <<>>]
    /\ lwErr = [s \in Streams |-> "nil"]

\* no cleanup was run by the last step
NoClean == "none"

\* no response was delivered by the last step
NoPush == [called |-> FALSE, s |-> 0, Devices |-> <<>>]

\* NewGrpcPlugin(), in an environment that may hold a stale socket file
Init ==
    /\ devices = EmptyRegistry
    /\ client = FALSE
    /\ dials = 0
    /\ socket \in BOOLEAN
    /\ server = "nil"
    /\ startPc = "cleanup"
    /\ startErr = "nil"
    /\ tried = <<>>
    /\ registered = FALSE
    /\ NoStreams
    /\ healthChanged = FALSE
    /\ allocOut = NoAlloc
    /\ getOut = NoGet
    /\ cleanOut = NoClean
    /\ pushOut = NoPush

\* no handler call, no cleanup and no push completes in this step
NoOut ==
    /\ allocOut' = NoAlloc
    /\ getOut' = NoGet
    /\ cleanOut' = NoClean
    /\ pushOut' = NoPush

(* ------------------------------- Start --------------------------------- *)
\* Start running the failed step again instead of returning its error
FailRetries(step) ==
    /\ startPc' = step
    /\ startErr' = startErr
    /\ tried' = Append(tried, step)

\* a step of Start returned an error: Start wraps and returns it
Fail(step) ==
    /\ startPc' = "failed"
    /\ startErr' = step
    /\ tried' = Append(tried, step)

Pass(step, next) ==
    /\ startPc' = next
    /\ startErr' = startErr
    /\ tried' = Append(tried, step)

\* cleanup(): os.Remove of the socket file; a missing file is no error
Cleanup ==
    /\ startPc = "cleanup"
    /\ \E removeErr \in {"nil", "notExist", "other"} :
          /\ removeErr = "nil" => socket
          /\ removeErr = "notExist" => ~socket
          /\ IF removeErr = "other"
             THEN Fail("cleanup") /\ socket' = socket
             ELSE Pass("cleanup", "discovery") /\ socket' = FALSE
          /\ cleanOut' = removeErr
    /\ allocOut' = NoAlloc
    /\ getOut' = NoGet
    /\ pushOut' = NoPush
    /\ UNCHANGED <<devices, client, dials, server, registered, lwVars, healthChanged>>

\* a write of the map changed the stored health of a record it already held
HealthWrite(old, new) ==
    \E id \in (DOMAIN old) \cap (DOMAIN new) : old[id].Health # new[id].Health

\* Start's call of GetDevices
Discovery ==
    /\ startPc = "discovery"
    /\ \E dialOk \in BOOLEAN, rpcOk \in BOOLEAN, D \in SUBSET VendorIDs :
          LET r == GetDevicesResult(devices, client, dialOk, rpcOk, D) IN
          /\ devices' = r.devices
          /\ client' = r.client
          /\ dials' = DialsAfter(dials, r)
          /\ getOut' = GetCall(devices, client, D, r)
          /\ IF r.err # "nil" THEN Fail("discovery")
             ELSE Pass("discovery", "listen")
          /\ healthChanged' = (healthChanged \/ HealthWrite(devices, r.devices))
    /\ allocOut' = NoAlloc
    /\ cleanOut' = NoClean
    /\ pushOut' = NoPush
    /\ UNCHANGED <<socket, server, registered, lwVars>>

\* net.Listen on the socket path, then grpc.NewServer()
Listen ==
    /\ startPc = "listen"
    /\ \E ok \in BOOLEAN :
          /\ ok => ~socket
          /\ IF ok
             THEN Pass("listen", "dialKubelet") /\ socket' = TRUE /\ server' = "new"
             ELSE Fail("listen") /\ UNCHANGED <<socket, server>>
    /\ UNCHANGED <<devices, client, dials, registered, lwVars, healthChanged>>
    /\ NoOut

\* grpc.Dial of the kubelet's registration socket
DialKubelet ==
    /\ startPc = "dialKubelet"
    /\ \E ok \in BOOLEAN :
          IF ok THEN Pass("dialKubelet", "serve") ELSE Fail("dialKubelet")
    /\ UNCHANGED <<devices, client, dials, socket, server, registered, lwVars, healthChanged>>
    /\ NoOut

\* RegisterDevicePlugin going from the go statement straight to Register
ServeThenRegister ==
    /\ startPc = "serve"
    /\ Pass("serve", "register")
    /\ server' = "spawned"
    /\ UNCHANGED <<devices, client, dials, socket, registered, lwVars,
                   healthChanged>>
    /\ NoOut

\* RegisterDevicePluginServer and go func() { nf.grpcServer.Serve(lis) }()
Serve ==
    /\ startPc = "serve"
    /\ Pass("serve", "selftest")
    /\ server' = "spawned"
    /\ UNCHANGED <<devices, client, dials, socket, registered, lwVars, healthChanged>>
    /\ NoOut

\* the background goroutine: Serve starts accepting, or returns an error
ServeBackground ==
    /\ server = "spawned"
    /\ \E ok \in BOOLEAN : server' = IF ok THEN "serving" ELSE "serveFailed"
    /\ UNCHANGED <<devices, client, dials, socket, startVars, lwVars, healthChanged>>
    /\ NoOut

\* connectWithRetry: the blocking dial connects once the server accepts
DialConnect ==
    /\ startPc = "selftest"
    /\ server = "serving"
    /\ Pass("selftest", "register")
    /\ UNCHANGED <<devices, client, dials, socket, server, registered, lwVars, healthChanged>>
    /\ NoOut

\* connectWithRetry dialing under a context that never expires
DialWithoutDeadline ==
    /\ startPc = "selftest"
    /\ FALSE
    /\ UNCHANGED vars

\* connectWithRetry: the context of 5 seconds expires before the dial has
\* connected and DialContext returns the context's error
DialDeadline ==
    /\ startPc = "selftest"
    /\ Fail("selftest")
    /\ UNCHANGED <<devices, client, dials, socket, server, registered, lwVars, healthChanged>>
    /\ NoOut

SelfTest == DialConnect \/ DialDeadline

\* RegisterDevicePlugin stopping the server and removing the socket when
\* Register fails
RegisterStopsOnError ==
    /\ startPc = "register"
    /\ \E ok \in BOOLEAN :
          IF ok
          THEN Pass("register", "done") /\ registered' = TRUE
               /\ UNCHANGED <<socket, server>>
          ELSE Fail("register") /\ registered' = registered
               /\ server' = "stopped" /\ socket' = FALSE
    /\ UNCHANGED <<devices, client, dials, lwVars, healthChanged>>
    /\ NoOut

\* client.Register(context.Background(), request)
Register ==
    /\ startPc = "register"
    /\ \E ok \in BOOLEAN :
          IF ok THEN Pass("register", "done") /\ registered' = TRUE
          ELSE Fail("register") /\ registered' = registered
    /\ UNCHANGED <<devices, client, dials, socket, server, lwVars, healthChanged>>
    /\ NoOut

Start == Cleanup \/ Discovery \/ Listen \/ DialKubelet \/ Serve \/ SelfTest \/ Register

(* ------------------------- served handlers ----------------------------- *)
\* the gRPC server dispatches calls only while Serve is accepting
Serving == server = "serving"

\* the transport under stream s is open: the call was accepted and the server
\* has not been stopped
StreamOpen(s) == Serving /\ lwPc[s] \in {"send", "sleep"}

\* Allocate taking the devices it hands out off the map
AllocateMarksInUse(rqt) ==
    /\ Serving
    /\ ~allocOut.called
    /\ LET r == AllocateResult(devices, rqt) IN
          /\ allocOut' = [called |-> TRUE, devs |-> devices, rqt |-> rqt,
                          resp |-> r.resp, err |-> r.err]
          /\ devices' = IF r.err # NoErr THEN devices
                        ELSE [id \in DOMAIN devices |->
                                IF \E g \in 1..Len(rqt) : \E i \in 1..Len(rqt[g]) : rqt[g][i] = id
                                THEN [devices[id] EXCEPT !.Health = Unhealthy]
                                ELSE devices[id]]
    /\ getOut' = NoGet
    /\ cleanOut' = NoClean
    /\ pushOut' = NoPush
    /\ UNCHANGED <<client, dials, socket, server, startVars, lwVars, healthChanged>>

\* Allocate(ctx, rqt): reads the map, returns (resp, err)
Allocate(rqt) ==
    /\ Serving
    /\ ~allocOut.called
    /\ LET r == AllocateResult(devices, rqt) IN
          allocOut' = [called |-> TRUE, devs |-> devices, rqt |-> rqt,
                       resp |-> r.resp, err |-> r.err]
    /\ devices' = devices
    /\ getOut' = NoGet
    /\ cleanOut' = NoClean
    /\ pushOut' = NoPush
    /\ UNCHANGED <<client, dials, socket, server, startVars, lwVars, healthChanged>>

\* the response of Allocate has been delivered to the caller
AllocateReturn ==
    /\ allocOut.called
    /\ NoOut
    /\ UNCHANGED <<devices, client, dials, socket, server, startVars, lwVars, healthChanged>>

\* ListAndWatch is called on a new stream: changed := true
LWOpen(s) ==
    /\ Serving
    /\ lwPc[s] = "none"
    /\ lwPc' = [lwPc EXCEPT ![s] = "send"]
    /\ UNCHANGED <<devices, client, dials, socket, server, startVars, pushes, polls,
                   sent, lwErr, healthChanged>>
    /\ NoOut

\* sendDevices building resp and stream.Send(resp) succeeding, then the loop
\* goes to sleep
LWSend(s, resp) ==
    /\ lwPc[s] = "send"
    /\ StreamOpen(s)
    /\ pushes' = [pushes EXCEPT ![s] = @ + 1]
    /\ pushOut' = [called |-> TRUE, s |-> s, Devices |-> resp]
    /\ lwPc' = [lwPc EXCEPT ![s] = "sleep"]
    /\ allocOut' = NoAlloc
    /\ getOut' = NoGet
    /\ cleanOut' = NoClean
    /\ UNCHANGED <<devices, client, dials, socket, server, startVars, polls, lwErr,
                   healthChanged>>

LWSendOk(s) ==
    \E resp \in sendDevicesResponses(devices) : LWSend(s, resp) /\ sent' = sent

\* the same push, with the kubelet's copy of the response kept
LWSendOkReceived(s) ==
    \E resp \in sendDevicesResponses(devices) :
        LWSend(s, resp) /\ sent' = [sent EXCEPT ![s] = resp]

\* sendDevices returning the error of stream.Send without stopping the server
LWSendFailNoStop(s) ==
    /\ lwPc[s] = "send"
    /\ lwPc' = [lwPc EXCEPT ![s] = "returned"]
    /\ lwErr' = [lwErr EXCEPT ![s] = "send"]
    /\ UNCHANGED <<devices, client, dials, socket, server, startVars, pushes, polls,
                   sent, healthChanged>>
    /\ NoOut

\* sendDevices with stream.Send failing: nf.grpcServer.Stop(), return err;
\* ListAndWatch returns that error
LWSendFail(s) ==
    /\ lwPc[s] = "send"
    /\ server' = "stopped"
    /\ lwPc' = [lwPc EXCEPT ![s] = "returned"]
    /\ lwErr' = [lwErr EXCEPT ![s] = "send"]
    /\ UNCHANGED <<devices, client, dials, socket, startVars, pushes, polls, sent,
                   healthChanged>>
    /\ NoOut

\* the loop ending with nil when the health check found nothing changed
LWPollReturns(s) ==
    /\ lwPc[s] = "sleep"
    /\ polls[s] < MaxPolls
    /\ polls' = [polls EXCEPT ![s] = @ + 1]
    /\ devices' = changedDevices(devices)
    /\ healthChanged' = (healthChanged \/ HealthWrite(devices, devices'))
    /\ lwPc' = [lwPc EXCEPT ![s] = IF changedResult(devices) THEN "send" ELSE "returned"]
    /\ UNCHANGED <<client, dials, socket, server, startVars, pushes, sent, lwErr>>
    /\ NoOut

\* time.Sleep(5 * time.Second); changed = nf.changed(); back to the loop test
LWPoll(s) ==
    /\ lwPc[s] = "sleep"
    /\ polls[s] < MaxPolls
    /\ polls' = [polls EXCEPT ![s] = @ + 1]
    /\ devices' = changedDevices(devices)
    /\ healthChanged' = (healthChanged \/ HealthWrite(devices, devices'))
    /\ lwPc' = [lwPc EXCEPT ![s] = IF changedResult(devices) THEN "send" ELSE "sleep"]
    /\ UNCHANGED <<client, dials, socket, server, startVars, pushes, sent, lwErr>>
    /\ NoOut

ListAndWatch(s) == LWOpen(s) \/ LWSendOk(s) \/ LWSendFail(s) \/ LWPoll(s)

\* ListAndWatch with the receiving end of the stream observed
ListAndWatchReceived(s) ==
    LWOpen(s) \/ LWSendOkReceived(s) \/ LWSendFail(s) \/ LWPoll(s)

\* GetDevices() called again on the plugin by its owner, after Start returned
GetDevices ==
    /\ startPc \in {"done", "failed"}
    /\ \E dialOk \in BOOLEAN, rpcOk \in BOOLEAN, D \in SUBSET VendorIDs :
          LET r == GetDevicesResult(devices, client, dialOk, rpcOk, D) IN
          /\ devices' = r.devices
          /\ client' = r.client
          /\ dials' = DialsAfter(dials, r)
          /\ getOut' = GetCall(devices, client, D, r)
          /\ healthChanged' = (healthChanged \/ HealthWrite(devices, r.devices))
    /\ allocOut' = NoAlloc
    /\ cleanOut' = NoClean
    /\ pushOut' = NoPush
    /\ UNCHANGED <<socket, server, startVars, lwVars>>

(* --------------------------- specifications ---------------------------- *)
Next ==
    \/ Start
    \/ ServeBackground
    \/ GetDevices
    \/ \E rqt \in KubeletRequests : Allocate(rqt)
    \/ AllocateReturn
    \/ \E s \in Streams : ListAndWatch(s)

\* the plugin from construction on
Spec == Init /\ [][Next]_vars

\* a session driven by Start alone: GetDevices is called by Start only
NextStart ==
    \/ Start
    \/ ServeBackground
    \/ \E rqt \in KubeletRequests : Allocate(rqt)
    \/ AllocateReturn
    \/ \E s \in Streams : ListAndWatch(s)

SpecStart == Init /\ [][NextStart]_vars

\* the plugin with the foreground goroutine of Start and the background
\* Serve goroutine scheduled and the timer of the dial context running
FairSpec == Spec /\ WF_vars(Start) /\ WF_vars(ServeBackground)

\* Allocate as a function of the map and the request: the server is serving,
\* nf.devices is any value of its type and the request any bounded request
InitAllocate ==
    /\ devices \in AllRegistries
    /\ client = TRUE
    /\ dials = 1
    /\ socket = TRUE
    /\ server = "serving"
    /\ startPc = "done"
    /\ startErr = "nil"
    /\ tried = StartOrder
    /\ registered = TRUE
    /\ NoStreams
    /\ healthChanged = FALSE
    /\ allocOut = NoAlloc
    /\ getOut = NoGet
    /\ cleanOut = NoClean
    /\ pushOut = NoPush

NextAllocate ==
    \/ \E rqt \in Requests : Allocate(rqt)
    \/ AllocateReturn

SpecAllocate == InitAllocate /\ [][NextAllocate]_vars

\* the registries GetDevices can leave: every record Healthy
HealthyRegistries == {R \in AllRegistries : \A id \in DOMAIN R : R[id].Health = Healthy}

\* the served plugin after Start returned nil, on the map given
InitServed(registries) ==
    /\ devices \in registries
    /\ client = TRUE
    /\ dials = 1
    /\ socket = TRUE
    /\ server = "serving"
    /\ startPc = "done"
    /\ startErr = "nil"
    /\ tried = StartOrder
    /\ registered = TRUE
    /\ NoStreams
    /\ healthChanged = FALSE
    /\ allocOut = NoAlloc
    /\ getOut = NoGet
    /\ cleanOut = NoClean
    /\ pushOut = NoPush

\* the served plugin seen together with the kubelet end of its streams: watch
\* loops and later calls of GetDevices
InitWatch == InitServed(HealthyRegistries)

NextWatch ==
    \/ \E s \in Streams : ListAndWatchReceived(s)
    \/ GetDevices

SpecWatch == InitWatch /\ [][NextWatch]_vars

\* the watch loops as functions of the map: nf.devices is any value of its
\* type, also one holding records that are not Healthy
InitHealth == InitServed(AllRegistries)

NextHealth ==
    \/ \E s \in Streams : ListAndWatch(s)
    \/ GetDevices

SpecHealth == InitHealth /\ [][NextHealth]_vars

TypeOK ==
    /\ DOMAIN devices \subseteq VendorIDs
    /\ client \in BOOLEAN
    /\ server \in {"nil", "new", "spawned", "serving", "serveFailed", "stopped"}
    /\ startPc \in {"cleanup", "discovery", "listen", "dialKubelet", "serve",
                    "selftest", "register", "done", "failed"}
    /\ \A s \in Streams : lwPc[s] \in {"none", "send", "sleep", "returned"}

(* ------------------------- Allocate: claims ---------------------------- *)
\* the identities of a group, each followed by a comma
RECURSIVE Joined(_)
Joined(ids) == IF ids = <<>> THEN <<>> ELSE <<Head(ids), ",">> \o Joined(Tail(ids))

\* identity id is absent from the map, or present and not Healthy
Offending(devs, id) == id \notin DOMAIN devs \/ devs[id].Health # Healthy

\* positions, in request order, of the identities Allocate must reject
OffendingAt(devs, rqt) ==
    {i \in 1..Len(Flatten(rqt)) : Offending(devs, Flatten(rqt)[i])}

\* the first identity of the request, in request order, that is offending
FirstOffending(devs, rqt) ==
    Flatten(rqt)[CHOOSE i \in OffendingAt(devs, rqt) :
                    \A j \in OffendingAt(devs, rqt) : i <= j]

\* C1: a request naming only known, Healthy identities succeeds with one
\* response per group, in order, and every group's environment has the single
\* key NF-DEV whose value is that group's own identities, each followed by a
\* comma, and nothing of any other group
C1_EveryGroupOwnIds ==
    (allocOut.called /\ OffendingAt(allocOut.devs, allocOut.rqt) = {}) =>
        /\ allocOut.err = NoErr
        /\ ~allocOut.resp.nil
        /\ Len(allocOut.resp.ContainerResponses) = Len(allocOut.rqt)
        /\ \A g \in 1..Len(allocOut.rqt) :
              /\ g \in DOMAIN allocOut.resp.ContainerResponses
              /\ DOMAIN allocOut.resp.ContainerResponses[g].Envs = {EnvKey}
              /\ allocOut.resp.ContainerResponses[g].Envs[EnvKey]
                    = Joined(allocOut.rqt[g])

\* C2: a request naming an identity that is not a key of the map fails as a
\* whole: the response is nil, also when earlier groups were processed, and
\* the error is the non-existing-device error naming that identity when it is
\* the one the loops reach (the first offending identity in request order)
C2_UnknownFailsWhole ==
    (allocOut.called
       /\ \E i \in 1..Len(Flatten(allocOut.rqt)) :
             Flatten(allocOut.rqt)[i] \notin DOMAIN allocOut.devs) =>
        /\ allocOut.resp = NilResponse
        /\ allocOut.err # NoErr
        /\ FirstOffending(allocOut.devs, allocOut.rqt) \notin DOMAIN allocOut.devs
              => allocOut.err = UnknownErr(FirstOffending(allocOut.devs, allocOut.rqt))

\* C2 witness: the second group names an unknown identity after a first group
\* of known, Healthy identities was processed
C2_Witness ==
    /\ allocOut.called
    /\ Len(allocOut.rqt) = 2
    /\ allocOut.rqt[1] # <<>>
    /\ \A i \in 1..Len(allocOut.rqt[1]) : ~Offending(allocOut.devs, allocOut.rqt[1][i])
    /\ allocOut.rqt[2] = <<"X">>
    /\ Len(Flatten(allocOut.rqt)) >= 2
    /\ allocOut.err = UnknownErr("X")
    /\ allocOut.resp = NilResponse

\* C3: a request naming a present, non-Healthy identity fails as a whole with
\* a nil response, and the error is the one of the first offending identity
\* in request order: non-existing if that one is absent, unhealthy if it is
\* present and not Healthy
C3_FirstOffendingError ==
    (allocOut.called /\ OffendingAt(allocOut.devs, allocOut.rqt) # {}) =>
        LET id == FirstOffending(allocOut.devs, allocOut.rqt) IN
        /\ allocOut.resp = NilResponse
        /\ allocOut.err = IF id \in DOMAIN allocOut.devs
                          THEN UnhealthyErr(id) ELSE UnknownErr(id)

\* C3 witness: an Unhealthy identity, after a Healthy one and before an
\* unknown one, decides the error
C3_Witness ==
    /\ allocOut.called
    /\ Len(Flatten(allocOut.rqt)) = 3
    /\ ~Offending(allocOut.devs, Flatten(allocOut.rqt)[1])
    /\ Flatten(allocOut.rqt)[2] \in DOMAIN allocOut.devs
    /\ allocOut.devs[Flatten(allocOut.rqt)[2]].Health = Unhealthy
    /\ Flatten(allocOut.rqt)[3] \notin DOMAIN allocOut.devs
    /\ allocOut.err = UnhealthyErr(Flatten(allocOut.rqt)[2])
    /\ allocOut.resp = NilResponse

\* C4: an Allocate step leaves the map as it was, whatever it returns, so the
\* same request issued again right after returns the same response and error
C4_AllocateFrame ==
    [][allocOut'.called =>
          /\ devices' = devices
          /\ AllocateResult(devices', allocOut'.rqt)
                = [resp |-> allocOut'.resp, err |-> allocOut'.err]]_vars

\* C4 witness: a successful and non-empty allocation has been served
C4_Witness ==
    /\ allocOut.called
    /\ allocOut.err = NoErr
    /\ Flatten(allocOut.rqt) # <<>>
    /\ devices = allocOut.devs

(* ------------------------ GetDevices: claims --------------------------- *)
\* C5 as stated: after a successful GetDevices the map holds exactly the
\* identities of D, each Healthy, and no record outside D
C5_ExactlyD ==
    (getOut.called /\ getOut.err = "nil") =>
        /\ DOMAIN devices = getOut.D
        /\ \A id \in getOut.D : devices[id] = Device(id, Healthy)

\* C5 amended: after a successful GetDevices on a map R the map holds one
\* record per identity of D, each Healthy and keyed by its ID, and every
\* record R held for an identity outside D, unchanged: its identities are
\* those of R together with D
C5_UpsertsD ==
    (getOut.called /\ getOut.err = "nil") =>
        /\ DOMAIN devices = (DOMAIN getOut.R) \cup getOut.D
        /\ \A id \in getOut.D : devices[id] = Device(id, Healthy)
        /\ \A id \in (DOMAIN getOut.R) \ getOut.D : devices[id] = getOut.R[id]

\* C5 witness: a refresh of a non-empty map that returned an identity the map
\* did not hold and did not return one it held
C5_Witness ==
    /\ getOut.called
    /\ getOut.err = "nil"
    /\ getOut.D \ DOMAIN getOut.R # {}
    /\ (DOMAIN getOut.R) \ getOut.D # {}

(* ----------------------- ListAndWatch: claims -------------------------- *)
\* C6: while no record's health has changed, a stream that was opened is
\* about to push with nothing pushed yet, or has pushed exactly one response,
\* however many polling intervals have elapsed; it polls only after that push
C6_OnePushWithoutChange ==
    ~healthChanged =>
        \A s \in Streams :
            /\ pushes[s] <= 1
            /\ lwPc[s] = "none" => pushes[s] = 0 /\ polls[s] = 0
            /\ lwPc[s] = "send" => pushes[s] = 0 /\ polls[s] = 0
            /\ lwPc[s] = "sleep" => pushes[s] = 1
            /\ polls[s] > 0 => pushes[s] = 1

\* C6 witness: a stream has slept through all counted polling intervals and
\* has pushed once
C6_Witness ==
    \E s \in Streams :
        /\ lwPc[s] = "sleep"
        /\ polls[s] = MaxPolls
        /\ polls[s] >= 2
        /\ pushes[s] = 1
        /\ ~healthChanged

\* C7: once a push has failed on a stream, its ListAndWatch has returned, the
\* server is stopped and stays stopped, no stream is open, no further response
\* is pushed on any stream and no Allocate call is handled
C7_FailedPushStopsServer ==
    /\ []((\E s \in Streams : lwPc[s] = "returned") =>
            /\ server = "stopped"
            /\ \A t \in Streams : ~StreamOpen(t)
            /\ ~allocOut.called)
    /\ [][(\E s \in Streams : lwPc[s] = "returned") =>
            /\ server' = "stopped"
            /\ pushes' = pushes
            /\ ~allocOut'.called
            /\ \A s \in Streams : lwPc[s] = "returned" => lwPc'[s] = "returned"
            /\ \A s \in Streams : lwPc[s] = "none" => lwPc'[s] = "none"]_vars

\* C7 witness: a push failed on one stream while another stream had pushed
\* and was waiting
C7_Witness ==
    \E s, t \in Streams :
        /\ s # t
        /\ lwPc[s] = "returned"
        /\ lwPc[t] = "sleep"
        /\ pushes[t] = 1
        /\ server = "stopped"

(* --------------------------- Start: claims ----------------------------- *)
\* C8: the steps of Start are executed in the order cleanup, discovery,
\* listen, dial of the kubelet, serve, self-test, register, each at most once,
\* so Register is issued only after all the others passed, with the socket
\* bound and the Serve goroutine started
C8_StartOrder ==
    /\ Len(tried) <= Len(StartOrder)
    /\ \A i \in 1..Len(tried) : i <= Len(StartOrder) /\ tried[i] = StartOrder[i]
    /\ (Len(tried) = Len(StartOrder) \/ startPc = "register" \/ registered) =>
          /\ socket
          /\ server \in {"spawned", "serving", "serveFailed", "stopped"}
          /\ \A i \in 1..6 : i \in DOMAIN tried /\ tried[i] = StartOrder[i]
    /\ registered => startPc = "done" /\ tried = StartOrder

\* C8 witness: Start went through all its steps and registered
C8_Witness ==
    /\ registered
    /\ startPc = "done"
    /\ tried = StartOrder

\* C9: a failed step ends Start with that step's error: it is the last step
\* executed, nothing is executed after it, no step is executed twice, and
\* Start is done without error only if all seven steps passed
C9_FailureAborts ==
    /\ [](/\ startPc = "failed" <=> startErr # "nil"
          /\ startPc = "failed" => tried # <<>> /\ tried[Len(tried)] = startErr
          /\ \A i, j \in 1..Len(tried) : tried[i] = tried[j] => i = j
          /\ startPc = "done" => startErr = "nil" /\ tried = StartOrder
          /\ startPc \notin {"done", "failed"} =>
                Len(tried) < Len(StartOrder) /\ startPc = StartOrder[Len(tried) + 1])
    /\ [][startPc = "failed" => UNCHANGED <<startPc, startErr, tried, registered>>]_vars

\* C9 witness: the dial of the kubelet failed after three steps had passed
C9_Witness ==
    /\ startPc = "failed"
    /\ startErr = "dialKubelet"
    /\ tried = <<"cleanup", "discovery", "listen", "dialKubelet">>
    /\ ~registered

\* the plugin's socket will never accept: Serve returned or was stopped
NeverAccepts == server \in {"serveFailed", "stopped"}

\* C10: when the plugin's endpoint never accepts, the self-test dial ends:
\* Start fails with the self-test error and the plugin is not registered
C10_SelfTestTerminates ==
    (startPc = "selftest" /\ NeverAccepts)
        ~> (startPc = "failed" /\ startErr = "selftest" /\ ~registered)

\* C10 witness: the dial ran into its deadline against a socket nobody serves
C10_Witness ==
    /\ startPc = "failed"
    /\ startErr = "selftest"
    /\ NeverAccepts
    /\ ~registered

(* ------------------- startup in a trivial environment ------------------ *)
\* Start can take its next step without failing
CanProceed == ENABLED (Start /\ startPc' # "failed")

\* the discovery step can pass on an enumeration of zero devices
CanDiscoverNothing ==
    ENABLED (Discovery /\ getOut'.D = {} /\ getOut'.err = "nil"
                /\ startPc' = "listen")

\* C11: startup does not need a stale socket or a device: a cleanup whose
\* os.Remove found no file passes without error; a discovery can pass on an
\* enumeration of zero devices, and then leaves the registry empty; and with an
\* empty registry every later step of Start can still pass (the self-test once
\* the server accepts), so that Start can complete
C11_TrivialEnvironmentStarts ==
    /\ [](cleanOut = "notExist" =>
            startPc = "discovery" /\ startErr = "nil" /\ ~socket)
    /\ [][(startPc = "discovery" /\ getOut'.called /\ getOut'.err = "nil"
             /\ getOut'.D = {}) =>
            /\ devices' = EmptyRegistry
            /\ startPc' = "listen"
            /\ startErr' = "nil"]_vars
    /\ []((devices = EmptyRegistry
             /\ startPc \in {"listen", "dialKubelet", "serve", "selftest", "register"}
             /\ (startPc = "selftest" => Serving)) => CanProceed)
    /\ [](startPc = "discovery" => CanDiscoverNothing)

\* C11 witness: Start completed and registered with an empty registry
C11_Witness ==
    /\ startPc = "done"
    /\ startErr = "nil"
    /\ registered
    /\ tried = StartOrder
    /\ devices = EmptyRegistry
    /\ Serving

(* -------------------- ListAndWatch: pushes on change ------------------- *)
\* the entries of a response, as a set
Entries(resp) == {resp[i] : i \in DOMAIN resp}

\* stream s has been sent a response and the registry no longer equals it
OutOfDate(s, devs) == pushes[s] >= 1 /\ Entries(sent[s]) # Snapshot(devs)

\* C12: a stream whose last pushed response differs from the registry pushes
\* the current registry: when its loop has finished a health check and the
\* registry differs from what the stream was last sent, the loop is Dirty and
\* will push
C12_PushesWheneverChanged ==
    [][\A s \in Streams :
          (polls'[s] = polls[s] + 1 /\ OutOfDate(s, devices'))
              => lwPc'[s] = "send"]_vars

(* -------------------- vendor connection: memoization ------------------- *)
\* C13: the vendor connection is dialed at most once with success: a call of
\* GetDevices that finds the client set does not dial and keeps the client; a
\* call that finds it unset dials; a dial that failed leaves the client unset,
\* so the next call dials again; once set the client stays set and no further
\* dial succeeds
C13_ConnectionMemoized ==
    /\ [](/\ dials <= 1
          /\ client <=> dials = 1
          /\ getOut.called =>
                /\ getOut.cl => ~getOut.dialed /\ client
                /\ ~getOut.cl => getOut.dialed
                /\ (getOut.dialed /\ getOut.err = "connect") => ~client
                /\ (getOut.dialed /\ getOut.err # "connect") => client)
    /\ [][client => client' /\ dials' = dials]_vars
    /\ [][(~client /\ getOut'.called) => getOut'.dialed]_vars

\* C13 witness: a later call of GetDevices reused the client Start had dialed
C13_Witness ==
    /\ startPc = "done"
    /\ getOut.called
    /\ getOut.cl
    /\ ~getOut.dialed
    /\ getOut.err = "nil"
    /\ client
    /\ dials = 1

(* ---------------------- registry: concurrent access -------------------- *)
\* the goroutines that touch nf.devices: the one running Start, the one of
\* the owner calling GetDevices again, the handler of an Allocate call and
\* the handler of each ListAndWatch stream
Goroutines ==
    {<<"Start", 0>>, <<"GetDevices", 0>>, <<"Allocate", 0>>}
        \cup {<<"ListAndWatch", s>> : s \in Streams}

\* the next statement of goroutine g reads nf.devices: the range loops of
\* sendDevices and changed, the lookup of Allocate
ReadsRegistry(g) ==
    \/ g[1] = "ListAndWatch" /\ lwPc[g[2]] \in {"send", "sleep"}
    \/ g[1] = "Allocate" /\ Serving

\* the next statement of goroutine g may assign into nf.devices: the loop of
\* GetDevices over the devices returned, the write-back of changed
WritesRegistry(g) ==
    \/ g[1] = "Start" /\ startPc = "discovery"
    \/ g[1] = "GetDevices" /\ startPc \in {"done", "failed"}
    \/ g[1] = "ListAndWatch" /\ lwPc[g[2]] = "sleep" /\ changedResult(devices)

\* nfResources has no lock and the handlers share no channel: nothing orders
\* the accesses of two goroutines that are both running
Unsynchronized(g, h) == g # h

\* C14: no reader or writer of the registry runs concurrently with a write
\* to it: in no reachable state are two goroutines both about to access the
\* registry, one of them writing, with nothing ordering the two accesses
C14_NoConcurrentWrite ==
    \A g \in Goroutines : \A h \in Goroutines :
        Unsynchronized(g, h) =>
            ~(WritesRegistry(g) /\ (ReadsRegistry(h) \/ WritesRegistry(h)))

(* --------------------- ListAndWatch: full snapshots -------------------- *)
\* C15: a response pushed on a stream holds, for every identity of the
\* registry at the push, exactly one entry, with that record's health, and no
\* entry for anything else
C15_FullSnapshot ==
    pushOut.called =>
        /\ Len(pushOut.Devices) = Cardinality(DOMAIN devices)
        /\ \A id \in DOMAIN devices :
              \E i \in DOMAIN pushOut.Devices :
                  /\ pushOut.Devices[i] = Device(id, devices[id].Health)
                  /\ \A j \in DOMAIN pushOut.Devices :
                        pushOut.Devices[j].ID = id => j = i
        /\ \A i \in DOMAIN pushOut.Devices : pushOut.Devices[i].ID \in DOMAIN devices

\* C15 witness: a push of a registry of two records, one of them not Healthy
C15_Witness ==
    /\ pushOut.called
    /\ Len(pushOut.Devices) = 2
    /\ Cardinality(DOMAIN devices) = 2
    /\ \E id \in DOMAIN devices : devices[id].Health = Unhealthy
    /\ \E i \in DOMAIN pushOut.Devices : pushOut.Devices[i].Health = Unhealthy
    /\ \E i \in DOMAIN pushOut.Devices : pushOut.Devices[i].Health = Healthy

(* --------------------------- health check ------------------------------ *)
\* C16: a health check of a Clean loop reports a change, and sends the loop
\* back to Dirty, exactly when some record's stored health differs from the
\* recomputed one; it leaves the identities as they were and every stored
\* health equal to the recomputed one, so that a check run right after it
\* finds no difference and reports none; a Dirty loop then pushes
C16_HealthCheck ==
    /\ [][\A s \in Streams :
          (polls'[s] = polls[s] + 1) =>
              /\ lwPc[s] = "sleep"
              /\ lwPc'[s] \in {"send", "sleep"}
              /\ (lwPc'[s] = "send") <=>
                    (\E id \in DOMAIN devices :
                        devices[id].Health # getDeviceState(id))
              /\ DOMAIN devices' = DOMAIN devices
              /\ \A id \in DOMAIN devices' :
                    /\ devices'[id].ID = devices[id].ID
                    /\ devices'[id].Health = getDeviceState(id)
              /\ ~changedResult(devices')
              /\ changedDevices(devices') = devices']_vars
    /\ [][\A s \in Streams :
          (lwPc[s] = "send" /\ lwPc'[s] # "send") =>
              \/ lwPc'[s] = "sleep" /\ pushOut'.called /\ pushOut'.s = s
              \/ lwPc'[s] = "returned" /\ ~pushOut'.called]_vars
    /\ [][\A s \in Streams :
          (lwPc[s] = "sleep" /\ lwPc'[s] = "send") => polls'[s] = polls[s] + 1]_vars

\* C16 witness: a loop found a record not Healthy, stored the recomputed
\* health, went back to Dirty and pushed a second time; its next check
\* reported no change
C16_Witness ==
    \E s \in Streams :
        /\ pushes[s] = 2
        /\ polls[s] >= 2
        /\ lwPc[s] = "sleep"
        /\ healthChanged
        /\ devices # EmptyRegistry
        /\ \A id \in DOMAIN devices : devices[id].Health = Healthy

(* ----------------------- ListAndWatch: its return ---------------------- *)
\* C17: ListAndWatch returns only from a push that failed, and returns that
\* push's error: a stream has returned exactly if it holds the Send error; a
\* loop returns only from Dirty, in a step that delivers nothing; after a
\* push that succeeded the loop waits; from the wait it only goes on to the
\* health check, which leads to the wait or to a push, and (within the
\* polling intervals counted) is never blocked
C17_ReturnsOnlyOnFailedPush ==
    /\ [](\A s \in Streams :
            /\ lwPc[s] = "returned" <=> lwErr[s] = "send"
            /\ lwErr[s] \in {"nil", "send"}
            /\ (lwPc[s] = "sleep" /\ polls[s] < MaxPolls) => ENABLED LWPoll(s))
    /\ [][\A s \in Streams :
            /\ (lwPc[s] # "returned" /\ lwPc'[s] = "returned") =>
                  /\ lwPc[s] = "send"
                  /\ ~pushOut'.called
                  /\ pushes'[s] = pushes[s]
            /\ (pushOut'.called /\ pushOut'.s = s) =>
                  lwPc[s] = "send" /\ lwPc'[s] = "sleep" /\ lwErr'[s] = "nil"
            /\ lwPc[s] = "sleep" => lwPc'[s] \in {"sleep", "send"}
            /\ lwPc[s] = "returned" => lwPc'[s] = "returned"]_vars

\* C17 witness: a loop pushed, waited, found a change and returned the error
\* of its second push
C17_Witness ==
    \E s \in Streams :
        /\ lwPc[s] = "returned"
        /\ lwErr[s] = "send"
        /\ pushes[s] = 1
        /\ polls[s] >= 1
        /\ server = "stopped"

(* ---------------------- registry: who writes it ------------------------ *)
\* C18: in a session driven by Start the registry is written by the discovery
\* step alone, before the server exists: every step that changes the map is
\* the discovery step; once the server was created discovery has passed and
\* no step changes the map; no step of a watch loop or of Allocate changes it
C18_OnlyDiscoveryWrites ==
    /\ [](server # "nil" =>
            /\ Len(tried) >= 3
            /\ tried[2] = "discovery"
            /\ startErr # "discovery"
            /\ startPc # "discovery")
    /\ [][devices' # devices =>
            /\ startPc = "discovery"
            /\ getOut'.called
            /\ server = "nil"
            /\ \A s \in Streams : lwPc[s] = "none"]_vars
    /\ [][server # "nil" => devices' = devices]_vars
    /\ [][(allocOut'.called \/ lwPc' # lwPc \/ polls' # polls \/ pushes' # pushes)
            => devices' = devices]_vars

\* C18 witness: Start is done, the registry holds what discovery found, a
\* watch loop has pushed and run health checks and an Allocate call is served
C18_Witness ==
    /\ startPc = "done"
    /\ Serving
    /\ devices # EmptyRegistry
    /\ allocOut.called
    /\ allocOut.err = NoErr
    /\ Flatten(allocOut.rqt) # <<>>
    /\ \E s \in Streams : pushes[s] = 1 /\ polls[s] >= 1

(* ----------------------- registry: always Healthy ---------------------- *)
\* C19: every record of the registry is Healthy and stored under its own ID,
\* in every reachable state; so no write ever changes a stored health, no
\* Allocate call returns the unhealthy-device error and no watch loop goes
\* from Clean back to Dirty
C19_AlwaysHealthy ==
    /\ [](/\ \A id \in DOMAIN devices : devices[id] = Device(id, Healthy)
          /\ ~healthChanged
          /\ allocOut.called => allocOut.err.kind # "unhealthy device"
          /\ \A s \in Streams : pushes[s] <= 1)
    /\ [][\A s \in Streams : lwPc[s] = "sleep" => lwPc'[s] = "sleep"]_vars

\* C19 witness: with a registry of two records refreshed after Start, a
\* watch loop has run all its counted health checks after its one push
C19_Witness ==
    /\ Cardinality(DOMAIN devices) = 2
    /\ getOut.called
    /\ getOut.err = "nil"
    /\ getOut.R # EmptyRegistry
    /\ getOut.D # {}
    /\ \E s \in Streams : lwPc[s] = "sleep" /\ polls[s] = MaxPolls /\ pushes[s] = 1

(* ------------------- Start: what a failure leaves ---------------------- *)
\* C20: a failure of the self-test or of Register stops no server and removes
\* no socket: the step that fails leaves both as they were, with the socket
\* bound and the Serve goroutine started (after a Register failure it has
\* been accepting), and only a failed push stops the server later; so while
\* it serves after Start returned the error, new ListAndWatch and Allocate
\* calls are still handled. A failure of the kubelet dial leaves the socket
\* bound and the server created but never served
C20_FailureLeavesServer ==
    /\ [][(startPc # "failed" /\ startPc' = "failed"
             /\ startErr' \in {"dialKubelet", "selftest", "register"}) =>
            socket /\ socket' /\ server' = server]_vars
    /\ []((startPc = "failed" /\ startErr = "selftest") =>
            socket /\ server \in {"spawned", "serving", "serveFailed", "stopped"})
    /\ []((startPc = "failed" /\ startErr = "register") =>
            /\ socket
            /\ server \in {"serving", "stopped"}
            /\ server = "stopped" => \E s \in Streams : lwPc[s] = "returned")
    /\ []((startPc = "failed" /\ Serving) =>
            /\ \A s \in Streams : lwPc[s] = "none" => ENABLED LWOpen(s)
            /\ ~allocOut.called => ENABLED Allocate(<<>>))
    /\ []((startPc = "failed" /\ startErr = "dialKubelet") =>
            socket /\ server = "new" /\ \A s \in Streams : lwPc[s] = "none")
    /\ [][(startPc = "failed"
             /\ startErr \in {"dialKubelet", "selftest", "register"}) =>
            socket']_vars

\* C20 witness: after Register failed, a stream was opened and pushed to and
\* an Allocate call was served
C20_Witness ==
    /\ startPc = "failed"
    /\ startErr = "register"
    /\ ~registered
    /\ Serving
    /\ socket
    /\ allocOut.called
    /\ allocOut.err = NoErr
    /\ \E s \in Streams : pushes[s] = 1 /\ lwPc[s] = "sleep"

====
